---- MODULE Spec2Model ----
(***************************************************************************)
(* Model of main.py: a FastAPI application served by one uvicorn process.  *)
(* Requests are tasks of a single event loop.  Handlers written "def"      *)
(* (read_root, read_item) and the dependency validate_security_key run in  *)
(* the thread pool; the handler written "async def" (waitlist_signup) runs *)
(* on the event loop itself and holds it from entry to exit, because its   *)
(* body contains no await: the template read, the render and the call of   *)
(* resend.Emails.send are all synchronous.                                 *)
(*                                                                         *)
(* Text is a sequence of pieces; a literal of the program is one piece and *)
(* a signup name is a sequence of one-character pieces, so that            *)
(* concatenation is \o and "contains" is a question about subsequences.    *)
(***************************************************************************)
EXTENDS Integers, Sequences, FiniteSets, TLC

VARIABLES
    env_security_key,  \* os.environ.get("FRONTEND_KEY"), fixed for the process
    loop,              \* the request whose task occupies the event loop, or NoReq
    pc,                \* per request: where its handling stands
    kind,              \* per request: which route it addresses
    security_key,      \* per request: the X-Frontend-Key header as bound to the dependency
    validated_key,     \* per request: outcome of validate_security_key
    signup,            \* per request: the WaitlistSignup body bound to the handler
    template_file,     \* per request: how the handler found waitlist.html
    template_content,  \* per request: text read from waitlist.html
    first_name,        \* per request: the derived first name
    html_content,      \* per request: the rendered template
    caught,            \* per request: the exception caught by the handler's except block
    provider,          \* per request: what resend.Emails.send returned
    events,            \* per request: side effects performed so far, in order
    result             \* per request: the HTTP response

vars == << env_security_key, loop, pc, kind, security_key, validated_key, signup,
           template_file, template_content, first_name, html_content, caught, provider,
           events, result >>

----------------------------------------------------------------------------
(* Bounds of the model *)

NumReqs == 2
MaxNameLen == 3

Reqs == 1 .. NumReqs
NoReq == 0

----------------------------------------------------------------------------
(* Values *)

\* Python's Optional[str]
None == [some |-> FALSE, val |-> ""]
Some(s) == [some |-> TRUE, val |-> s]
\* Python truthiness of an Optional[str]: None and "" are falsy
Truthy(x) == x.some /\ x.val # ""

EnvKeys == {None, Some(""), Some("k1")}
HeaderValues == {None, Some(""), Some("k1"), Some("k2")}

NameChars == {"a", " "}
Names == UNION {[1 .. n -> NameChars] : n \in 0 .. MaxNameLen}
Emails == {"ada@example.com"}
WaitlistSignup == [email : Emails, name : Names]
NoSignup == [email |-> "", name |-> <<>>]

ItemIds == {1}
Queries == {None, Some("q")}

\* the states waitlist.html can be found in when the handler looks for it
TemplateFiles == {"absent", "unreadable", "valid", "malformed"}

\* what resend.Emails.send can return: a dict with or without the key "id"
EmptyDict == [k \in {} |-> ""]
ProviderResults == {EmptyDict, [id |-> "e1"], [object |-> "email"]}
\* what resend.Emails.send can raise: the exception's str()
ProviderErrors == {<<"API key is invalid">>, <<"Connection timed out">>}

NoExc == [type |-> "none", text |-> <<>>]
NoResult == [status |-> 0]
NoAuth == [allowed |-> FALSE, status |-> 0, detail |-> <<>>, value |-> ""]

----------------------------------------------------------------------------
(* Text helpers *)

IsInfix(sub, s) ==
    \E i \in 0 .. Len(s) - Len(sub) : SubSeq(s, i + 1, i + Len(sub)) = sub

IsSpace(c) == c \in {" ", "\t", "\n"}

\* the positions of s at which an event e occurs
Positions(s, e) == {i \in 1 .. Len(s) : s[i] = e}
Count(s, e) == Cardinality(Positions(s, e))

----------------------------------------------------------------------------
(* validate_security_key: the dependency of the signup route *)

\* faulty variant: the "if not security_key" test is missing
validate_security_key_no_missing_check(env_key, header) ==
    IF ~Truthy(env_key)
    THEN [allowed |-> TRUE, status |-> 0, detail |-> <<>>, value |-> "dev-mode"]
    ELSE IF header.val # env_key.val \/ ~header.some
    THEN [allowed |-> FALSE, status |-> 403, detail |-> <<"Invalid security key">>, value |-> ""]
    ELSE [allowed |-> TRUE, status |-> 0, detail |-> <<>>, value |-> header.val]

\* faulty variant: the comparison with the expected secret is missing
validate_security_key_no_compare(env_key, header) ==
    IF ~Truthy(env_key)
    THEN [allowed |-> TRUE, status |-> 0, detail |-> <<>>, value |-> "dev-mode"]
    ELSE IF ~Truthy(header)
    THEN [allowed |-> FALSE, status |-> 401, detail |-> <<"Security key is required">>, value |-> ""]
    ELSE [allowed |-> TRUE, status |-> 0, detail |-> <<>>, value |-> header.val]

\* faulty variant: the header is required before the environment is consulted
validate_security_key_no_dev_mode(env_key, header) ==
    IF ~Truthy(header)
    THEN [allowed |-> FALSE, status |-> 401, detail |-> <<"Security key is required">>, value |-> ""]
    ELSE IF ~Truthy(env_key)
    THEN [allowed |-> TRUE, status |-> 0, detail |-> <<>>, value |-> "dev-mode"]
    ELSE IF header.val # env_key.val
    THEN [allowed |-> FALSE, status |-> 403, detail |-> <<"Invalid security key">>, value |-> ""]
    ELSE [allowed |-> TRUE, status |-> 0, detail |-> <<>>, value |-> header.val]

\* lines 48-69 as written
validate_security_key(env_key, header) ==
    IF ~Truthy(env_key)
    THEN [allowed |-> TRUE, status |-> 0, detail |-> <<>>, value |-> "dev-mode"]
    ELSE IF ~Truthy(header)
    THEN [allowed |-> FALSE, status |-> 401, detail |-> <<"Security key is required">>, value |-> ""]
    ELSE IF header.val # env_key.val
    THEN [allowed |-> FALSE, status |-> 403, detail |-> <<"Invalid security key">>, value |-> ""]
    ELSE [allowed |-> TRUE, status |-> 0, detail |-> <<>>, value |-> header.val]

----------------------------------------------------------------------------
(* get_email_template: returns the text, or raises *)

\* str() of an HTTPException is "<status>: <detail>"
HTTPException(status, detail) ==
    [type |-> "HTTPException", text |-> <<status, ": ", detail>>]

\* faulty variant: a missing file is not reported
get_email_template_no_raise(file) ==
    IF file = "unreadable"
    THEN [raised |-> TRUE, exc |-> [type |-> "OSError", text |-> <<"Permission denied: waitlist.html">>],
          text |-> ""]
    ELSE [raised |-> FALSE, exc |-> NoExc, text |-> IF file = "absent" THEN "valid" ELSE file]

get_email_template(file) ==
    IF file = "absent"
    THEN [raised |-> TRUE, exc |-> HTTPException("500", "Email template not found"), text |-> ""]
    ELSE IF file = "unreadable"
    THEN [raised |-> TRUE, exc |-> [type |-> "OSError", text |-> <<"Permission denied: waitlist.html">>],
          text |-> ""]
    ELSE [raised |-> FALSE, exc |-> NoExc, text |-> file]

----------------------------------------------------------------------------
(* signup.name.split()[0] if signup.name else "" *)

\* str.split() with no separator: runs of whitespace separate the tokens and
\* leading and trailing whitespace yields no empty token
split(s) ==
    LET RECURSIVE scan(_, _, _)
        scan(i, cur, acc) ==
            IF i > Len(s)
            THEN IF cur = <<>> THEN acc ELSE Append(acc, cur)
            ELSE IF IsSpace(s[i])
            THEN scan(i + 1, <<>>, IF cur = <<>> THEN acc ELSE Append(acc, cur))
            ELSE scan(i + 1, Append(cur, s[i]), acc)
    IN  scan(1, <<>>, <<>>)

\* faulty variant: the name is not split
extract_first_name_whole(name) ==
    [raised |-> FALSE, exc |-> NoExc, text |-> name]

\* faulty variant: a name without tokens yields "" instead of raising
extract_first_name_lenient(name) ==
    IF name = <<>> \/ split(name) = <<>>
    THEN [raised |-> FALSE, exc |-> NoExc, text |-> <<>>]
    ELSE [raised |-> FALSE, exc |-> NoExc, text |-> split(name)[1]]

extract_first_name(name) ==
    IF name = <<>>
    THEN [raised |-> FALSE, exc |-> NoExc, text |-> <<>>]
    ELSE IF split(name) = <<>>
    THEN [raised |-> TRUE, exc |-> [type |-> "IndexError", text |-> <<"list index out of range">>],
          text |-> <<>>]
    ELSE [raised |-> FALSE, exc |-> NoExc, text |-> split(name)[1]]

----------------------------------------------------------------------------
(* Template(template_content).render(subscriber=..., server_url=...) *)

server_url == "http://127.0.0.1:8000"

render(content, first, su) ==
    IF content = "malformed"
    THEN [raised |-> TRUE, exc |-> [type |-> "TemplateSyntaxError", text |-> <<"unexpected end of template">>],
          html |-> [first_name |-> <<>>, full_name |-> <<>>, email |-> "", server_url |-> ""]]
    ELSE [raised |-> FALSE, exc |-> NoExc,
          html |-> [first_name |-> first, full_name |-> su.name, email |-> su.email,
                    server_url |-> server_url]]

NoHtml == [first_name |-> <<>>, full_name |-> <<>>, email |-> "", server_url |-> ""]

----------------------------------------------------------------------------
(* The responses of waitlist_signup *)

\* "id" in response / response["id"]
\* faulty variant: the provider's identifier is dropped
email_id_never(response) ==
    None

email_id(response) ==
    IF "id" \in DOMAIN response THEN Some(response["id"]) ELSE None

success_body(su, response) ==
    [status |-> 200,
     success |-> TRUE,
     message |-> <<"Successfully added ">> \o su.name \o <<" to waitlist">>,
     email_id |-> email_id(response)]

\* the except block: every exception becomes a 500 carrying str(e)
\* faulty variant: the exception's text is left out of the detail
error_response_generic(e) ==
    [status |-> 500, detail |-> <<"Failed to send email">>]

error_response(e) ==
    [status |-> 500, detail |-> <<"Failed to send email: ">> \o e.text]

\* the response FastAPI builds from an HTTPException raised by the dependency
rejection(auth) ==
    [status |-> auth.status, detail |-> auth.detail]

resend_api_key == "re_hcWg7mPg_BaE6DGRwVuCiqD2sVLCdTJUq"

----------------------------------------------------------------------------
(* The state after construction: the application is up, no request in flight *)

Init ==
    /\ env_security_key \in EnvKeys
    /\ loop = NoReq
    /\ pc = [r \in Reqs |-> "idle"]
    /\ kind = [r \in Reqs |-> "none"]
    /\ security_key = [r \in Reqs |-> None]
    /\ validated_key = [r \in Reqs |-> NoAuth]
    /\ signup = [r \in Reqs |-> NoSignup]
    /\ template_file = [r \in Reqs |-> "unseen"]
    /\ template_content = [r \in Reqs |-> ""]
    /\ first_name = [r \in Reqs |-> <<>>]
    /\ html_content = [r \in Reqs |-> NoHtml]
    /\ caught = [r \in Reqs |-> NoExc]
    /\ provider = [r \in Reqs |-> EmptyDict]
    /\ events = [r \in Reqs |-> <<>>]
    /\ result = [r \in Reqs |-> NoResult]

\* variables of a request that only the signup handler's body writes
body_vars == << signup, template_file, template_content, first_name, html_content, caught, provider, events >>

----------------------------------------------------------------------------
(* The server: one event loop, a thread pool for "def" callables *)

\* a client sends a request to one of the routes
Arrive(r) ==
    /\ pc[r] = "idle"
    /\ \E k \in {"read_root", "read_item", "waitlist_signup"} :
           kind' = [kind EXCEPT ![r] = k]
    /\ pc' = [pc EXCEPT ![r] = "arrived"]
    /\ UNCHANGED << env_security_key, loop, security_key, validated_key, result, body_vars >>

\* the event loop, when free, reads the request and hands the first "def"
\* callable of its route to the thread pool: the handler itself, or the
\* dependency of the signup route
Accept(r) ==
    /\ pc[r] = "arrived"
    /\ loop = NoReq
    /\ pc' = [pc EXCEPT ![r] = IF kind[r] = "waitlist_signup" THEN "depends" ELSE "threadpool"]
    /\ UNCHANGED << env_security_key, loop, kind, security_key, validated_key, result, body_vars >>

\* read_root and read_item, run by a worker thread
read_root == [status |-> 200, message |-> "Welcome to FastAPI Backend!"]

read_item(item_id, q) == [status |-> 200, item_id |-> item_id, query |-> q]

RunInThreadpool(r) ==
    /\ pc[r] = "threadpool"
    /\ \/ /\ kind[r] = "read_root"
          /\ result' = [result EXCEPT ![r] = read_root]
       \/ /\ kind[r] = "read_item"
          /\ \E i \in ItemIds, q \in Queries :
                 result' = [result EXCEPT ![r] = read_item(i, q)]
    /\ pc' = [pc EXCEPT ![r] = "returned"]
    /\ UNCHANGED << env_security_key, loop, kind, security_key, validated_key, body_vars >>

\* the event loop, when free, resumes the task and writes the response
Respond(r) ==
    /\ pc[r] = "returned"
    /\ loop = NoReq
    /\ loop' = r
    /\ pc' = [pc EXCEPT ![r] = "done"]
    /\ UNCHANGED << env_security_key, kind, security_key, validated_key, result, body_vars >>

\* the response has gone out: the task ends and the loop is free again
Finish(r) ==
    /\ pc[r] = "done"
    /\ loop = r
    /\ loop' = NoReq
    /\ pc' = [pc EXCEPT ![r] = "idle"]
    /\ kind' = [kind EXCEPT ![r] = "none"]
    /\ security_key' = [security_key EXCEPT ![r] = None]
    /\ validated_key' = [validated_key EXCEPT ![r] = NoAuth]
    /\ signup' = [signup EXCEPT ![r] = NoSignup]
    /\ template_file' = [template_file EXCEPT ![r] = "unseen"]
    /\ template_content' = [template_content EXCEPT ![r] = ""]
    /\ first_name' = [first_name EXCEPT ![r] = <<>>]
    /\ html_content' = [html_content EXCEPT ![r] = NoHtml]
    /\ caught' = [caught EXCEPT ![r] = NoExc]
    /\ provider' = [provider EXCEPT ![r] = EmptyDict]
    /\ events' = [events EXCEPT ![r] = <<>>]
    /\ result' = [result EXCEPT ![r] = NoResult]
    /\ UNCHANGED env_security_key

----------------------------------------------------------------------------
(* POST /waitlist/signup *)

\* Depends(validate_security_key): a "def" dependency, run by a worker thread
\* with the request's X-Frontend-Key header (None when the header is absent)
ValidateKey(r) ==
    /\ pc[r] = "depends"
    /\ \E header \in HeaderValues :
           /\ security_key' = [security_key EXCEPT ![r] = header]
           /\ validated_key' = [validated_key EXCEPT ![r] =
                                    validate_security_key(env_security_key, header)]
    /\ pc' = [pc EXCEPT ![r] = "validated"]
    /\ UNCHANGED << env_security_key, loop, kind, result, body_vars >>

\* the dependency raised: the handler is never entered
Reject(r) ==
    /\ pc[r] = "validated"
    /\ loop = NoReq
    /\ ~validated_key[r].allowed
    /\ loop' = r
    /\ result' = [result EXCEPT ![r] = rejection(validated_key[r])]
    /\ pc' = [pc EXCEPT ![r] = "done"]
    /\ UNCHANGED << env_security_key, kind, security_key, validated_key, body_vars >>

\* the dependency returned: the event loop calls waitlist_signup(signup, validated_key)
\* and runs it without interruption until it returns or raises
EnterHandler(r) ==
    /\ pc[r] = "validated"
    /\ loop = NoReq
    /\ validated_key[r].allowed
    /\ loop' = r
    /\ \E su \in WaitlistSignup : signup' = [signup EXCEPT ![r] = su]
    /\ pc' = [pc EXCEPT ![r] = "load"]
    /\ UNCHANGED << env_security_key, kind, security_key, validated_key, result,
                    template_file, template_content, first_name, html_content, caught,
                    provider, events >>

\* except Exception as e: raise HTTPException(500, f"Failed to send email: {str(e)}")
Except(r, e, evs) ==
    /\ caught' = [caught EXCEPT ![r] = e]
    /\ result' = [result EXCEPT ![r] = error_response(e)]
    /\ events' = [events EXCEPT ![r] = evs]
    /\ pc' = [pc EXCEPT ![r] = "done"]

\* template_content = get_email_template()
\* faulty variant: a failed load is swallowed and the handler goes on
LoadTemplateSwallow(r) ==
    /\ pc[r] = "load"
    /\ loop = r
    /\ \E file \in TemplateFiles :
           LET t == get_email_template(file) IN
           /\ template_file' = [template_file EXCEPT ![r] = file]
           /\ template_content' = [template_content EXCEPT ![r] = IF t.raised THEN "valid" ELSE t.text]
           /\ events' = [events EXCEPT ![r] = IF t.raised THEN events[r] \o <<"load">>
                                               ELSE events[r] \o <<"load", "loaded">>]
           /\ pc' = [pc EXCEPT ![r] = "first_name"]
           /\ UNCHANGED << caught, result >>
    /\ UNCHANGED << env_security_key, loop, kind, security_key, validated_key, signup,
                    first_name, html_content, provider >>

LoadTemplate(r) ==
    /\ pc[r] = "load"
    /\ loop = r
    /\ \E file \in TemplateFiles :
           LET t == get_email_template(file) IN
           IF t.raised
           THEN /\ Except(r, t.exc, events[r] \o <<"load">>)
                /\ template_file' = [template_file EXCEPT ![r] = file]
                /\ UNCHANGED template_content
           ELSE /\ template_file' = [template_file EXCEPT ![r] = file]
                /\ template_content' = [template_content EXCEPT ![r] = t.text]
                /\ events' = [events EXCEPT ![r] = events[r] \o <<"load", "loaded">>]
                /\ pc' = [pc EXCEPT ![r] = "first_name"]
                /\ UNCHANGED << caught, result >>
    /\ UNCHANGED << env_security_key, loop, kind, security_key, validated_key, signup,
                    first_name, html_content, provider >>

\* first_name = signup.name.split()[0] if signup.name else ""
ExtractFirstName(r) ==
    /\ pc[r] = "first_name"
    /\ loop = r
    /\ LET f == extract_first_name(signup[r].name) IN
       IF f.raised
       THEN /\ Except(r, f.exc, events[r])
            /\ UNCHANGED first_name
       ELSE /\ first_name' = [first_name EXCEPT ![r] = f.text]
            /\ events' = [events EXCEPT ![r] = events[r] \o <<"first_name">>]
            /\ pc' = [pc EXCEPT ![r] = "render"]
            /\ UNCHANGED << caught, result >>
    /\ UNCHANGED << env_security_key, loop, kind, security_key, validated_key, signup,
                    template_file, template_content, html_content, provider >>

\* html_content = Template(template_content).render(...)
Render(r) ==
    /\ pc[r] = "render"
    /\ loop = r
    /\ LET h == render(template_content[r], first_name[r], signup[r]) IN
       IF h.raised
       THEN /\ Except(r, h.exc, events[r])
            /\ UNCHANGED html_content
       ELSE /\ html_content' = [html_content EXCEPT ![r] = h.html]
            /\ events' = [events EXCEPT ![r] = events[r] \o <<"render">>]
            /\ pc' = [pc EXCEPT ![r] = "send"]
            /\ UNCHANGED << caught, result >>
    /\ UNCHANGED << env_security_key, loop, kind, security_key, validated_key, signup,
                    template_file, template_content, first_name, provider >>

\* if not resend.api_key: raise ValueError(...); response = resend.Emails.send({...})
\* the call is synchronous: the task keeps the event loop while it is pending
SendEmail(r) ==
    /\ pc[r] = "send"
    /\ loop = r
    /\ IF resend_api_key = ""
       THEN Except(r, [type |-> "ValueError", text |-> <<"Resend API key is not configured">>],
                   events[r])
       ELSE /\ events' = [events EXCEPT ![r] = events[r] \o <<"send">>]
            /\ pc' = [pc EXCEPT ![r] = "sending"]
            /\ UNCHANGED << caught, result >>
    /\ UNCHANGED << env_security_key, loop, kind, security_key, validated_key, signup,
                    template_file, template_content, first_name, html_content, provider >>

\* the provider call returns a dict: the handler returns the success body
ProviderReturns(r) ==
    /\ pc[r] = "sending"
    /\ loop = r
    /\ \E response \in ProviderResults :
           /\ provider' = [provider EXCEPT ![r] = response]
           /\ result' = [result EXCEPT ![r] = success_body(signup[r], response)]
    /\ events' = [events EXCEPT ![r] = events[r] \o <<"returned">>]
    /\ pc' = [pc EXCEPT ![r] = "done"]
    /\ UNCHANGED << env_security_key, loop, kind, security_key, validated_key, signup,
                    template_file, template_content, first_name, html_content, caught >>

\* the provider call raises: the except block answers, nothing is sent again
ProviderRaises(r) ==
    /\ pc[r] = "sending"
    /\ loop = r
    /\ \E text \in ProviderErrors :
           Except(r, [type |-> "ResendError", text |-> text], events[r] \o <<"raised">>)
    /\ UNCHANGED << env_security_key, loop, kind, security_key, validated_key, signup,
                    template_file, template_content, first_name, html_content, provider >>

----------------------------------------------------------------------------

Next ==
    \E r \in Reqs :
        \/ Arrive(r)
        \/ Accept(r)
        \/ RunInThreadpool(r)
        \/ Respond(r)
        \/ Finish(r)
        \/ ValidateKey(r)
        \/ Reject(r)
        \/ EnterHandler(r)
        \/ LoadTemplate(r)
        \/ ExtractFirstName(r)
        \/ Render(r)
        \/ SendEmail(r)
        \/ ProviderReturns(r)
        \/ ProviderRaises(r)

Spec == Init /\ [][Next]_vars

----------------------------------------------------------------------------
(* Vocabulary of the properties *)

IsSignup(r) == kind[r] = "waitlist_signup"

\* the dependency has run for r
Validated(r) ==
    IsSignup(r) /\ pc[r] \in {"validated", "load", "first_name", "render", "send", "sending", "done"}

\* r is inside waitlist_signup, or has left it
InHandler(r) == IsSignup(r) /\ pc[r] \in {"load", "first_name", "render", "send", "sending"}
Entered(r) == InHandler(r) \/ (IsSignup(r) /\ pc[r] = "done" /\ validated_key[r].allowed)

SecretConfigured == Truthy(env_security_key)

Loads(r) == Count(events[r], "load")
Sends(r) == Count(events[r], "send")

Before(r, a, b) ==
    \A j \in Positions(events[r], b) : \E i \in Positions(events[r], a) : i < j

OnlyWhitespace(name) == name # <<>> /\ \A i \in 1 .. Len(name) : IsSpace(name[i])

\* tok is the first maximal run of non-whitespace characters of name
IsLeadingToken(tok, name) ==
    \E i \in 1 .. Len(name) : \E j \in i .. Len(name) :
        /\ \A k \in 1 .. i - 1 : IsSpace(name[k])
        /\ \A k \in i .. j : ~IsSpace(name[k])
        /\ j = Len(name) \/ IsSpace(name[j + 1])
        /\ tok = SubSeq(name, i, j)

----------------------------------------------------------------------------
(* Properties *)

\* C1: with a secret configured and the X-Frontend-Key header absent, a signup
\* request is answered 401 and the handler is never entered: no template load
\* and no provider send happen for it.
C1_MissingHeaderUnauthorized ==
    \A r \in Reqs :
        (Validated(r) /\ SecretConfigured /\ ~security_key[r].some) =>
            /\ ~validated_key[r].allowed
            /\ pc[r] \in {"validated", "done"}
            /\ events[r] = <<>>
            /\ template_file[r] = "unseen"
            /\ pc[r] = "done" => result[r].status = 401

C1_Witness ==
    \E r \in Reqs :
        /\ IsSignup(r) /\ pc[r] = "done" /\ SecretConfigured
        /\ ~security_key[r].some
        /\ result[r].status = 401

\* C2 as stated: with a secret configured, every header value that differs from
\* the secret, the empty value included, is answered 403 with no provider send.
C2_AnyDifferentValueForbidden ==
    \A r \in Reqs :
        (IsSignup(r) /\ pc[r] = "done" /\ SecretConfigured
            /\ security_key[r].some /\ security_key[r].val # env_security_key.val) =>
            /\ result[r].status = 403
            /\ Sends(r) = 0

\* C2 as amended: with a secret configured, every non-empty header value that
\* differs from the secret is answered 403, the empty header value is answered
\* 401 like an absent header, and in both cases the handler is never entered,
\* so no provider send happens.
C2_DifferentValueForbidden ==
    \A r \in Reqs :
        (Validated(r) /\ SecretConfigured
            /\ security_key[r].some /\ security_key[r].val # env_security_key.val) =>
            /\ ~validated_key[r].allowed
            /\ pc[r] \in {"validated", "done"}
            /\ events[r] = <<>>
            /\ pc[r] = "done" =>
                   result[r].status = IF security_key[r].val = "" THEN 401 ELSE 403

C2_Witness ==
    \E r \in Reqs :
        /\ IsSignup(r) /\ pc[r] = "done" /\ SecretConfigured
        /\ security_key[r] = Some("k2")
        /\ result[r].status = 403

\* C3: with no secret configured the dependency allows every header state, no
\* signup request is answered 401 or 403, and every signup request that has
\* been handled went on to the template load.
C3_NoSecretNeverRejects ==
    \A r \in Reqs :
        (Validated(r) /\ ~SecretConfigured) =>
            /\ validated_key[r].allowed
            /\ result[r].status \notin {401, 403}
            /\ pc[r] \notin {"validated", "load"} => Loads(r) = 1

C3_Witness ==
    \E r \in Reqs :
        /\ IsSignup(r) /\ pc[r] = "done" /\ ~SecretConfigured
        /\ security_key[r] = Some("k2")
        /\ Loads(r) = 1

\* C4: when an authorized signup request finds waitlist.html absent, it ends
\* with a 500 response and the provider send is never invoked for it.
C4_TemplateAbsentInternalError ==
    \A r \in Reqs :
        (IsSignup(r) /\ template_file[r] = "absent") =>
            /\ pc[r] = "done"
            /\ result[r].status = 500
            /\ Sends(r) = 0

C4_Witness ==
    \E r \in Reqs :
        /\ Entered(r) /\ pc[r] = "done"
        /\ template_file[r] = "absent"
        /\ result[r].status = 500

\* C5: when the provider call of an authorized signup request raises, the
\* response is 500, its detail contains the exception's message, it is no
\* success body, and the provider was invoked exactly once for the request.
C5_ProviderErrorInternalError ==
    \A r \in Reqs :
        (IsSignup(r) /\ "raised" \in {events[r][i] : i \in 1 .. Len(events[r])}) =>
            /\ pc[r] = "done"
            /\ result[r].status = 500
            /\ caught[r].text \in ProviderErrors
            /\ IsInfix(caught[r].text, result[r].detail)
            /\ "success" \notin DOMAIN result[r]
            /\ Sends(r) = 1

C5_Witness ==
    \E r \in Reqs :
        /\ Entered(r) /\ pc[r] = "done"
        /\ caught[r].type = "ResendError"
        /\ events[r][Len(events[r])] = "raised"
        /\ result[r].status = 500

\* C6: when the provider call of a signup request returns normally, the
\* response has success = true and a message containing the signup name, and
\* email_id is the provider result's "id" when it has one and null otherwise.
C6_SuccessBody ==
    \A r \in Reqs :
        (IsSignup(r) /\ "returned" \in {events[r][i] : i \in 1 .. Len(events[r])}) =>
            /\ pc[r] = "done"
            /\ result[r].status = 200
            /\ result[r].success = TRUE
            /\ IsInfix(signup[r].name, result[r].message)
            /\ "id" \in DOMAIN provider[r] => result[r].email_id = Some(provider[r]["id"])
            /\ "id" \notin DOMAIN provider[r] => result[r].email_id = None

C6_Witness ==
    \E r \in Reqs :
        /\ IsSignup(r) /\ pc[r] = "done"
        /\ provider[r] = [id |-> "e1"]
        /\ result[r].email_id = Some("e1")
        /\ signup[r].name = <<"a", " ", "a">>

\* a step of the handling of request s
Handle(s) ==
    \/ Accept(s) \/ RunInThreadpool(s) \/ Respond(s) \/ Finish(s)
    \/ ValidateKey(s) \/ Reject(s) \/ EnterHandler(s)
    \/ LoadTemplate(s) \/ ExtractFirstName(s) \/ Render(s) \/ SendEmail(s)
    \/ ProviderReturns(s) \/ ProviderRaises(s)

\* C7: while the provider call of one signup request is pending, every other
\* request in flight can still be handled: its next step can be taken.
C7_PendingSendStallsOnlyItself ==
    \A r \in Reqs : \A s \in Reqs \ {r} :
        (pc[r] = "sending" /\ pc[s] # "idle") => ENABLED Handle(s)

\* C8: for a signup request that passed the authorization check the template
\* load is attempted exactly once, before the render and before the provider
\* send, and the send is invoked at most once and only after a successful load
\* and render.
C8_LoadOnceThenRenderThenSend ==
    \A r \in Reqs :
        Entered(r) =>
            /\ Loads(r) = IF pc[r] = "load" THEN 0 ELSE 1
            /\ Count(events[r], "render") <= 1
            /\ Sends(r) <= 1
            /\ Before(r, "load", "render")
            /\ Before(r, "load", "send")
            /\ Before(r, "loaded", "send")
            /\ Before(r, "render", "send")
            /\ pc[r] = "sending" => Sends(r) = 1

C8_Witness ==
    \E r \in Reqs :
        /\ Entered(r) /\ pc[r] = "done"
        /\ events[r] = <<"load", "loaded", "first_name", "render", "send", "returned">>

\* C9: the first name the template is rendered with is the leading
\* whitespace-delimited token of the signup name, and is empty when the name
\* is empty.
C9_FirstNameIsLeadingToken ==
    \A r \in Reqs :
        (IsSignup(r) /\ Count(events[r], "render") > 0) =>
            IF signup[r].name = <<>>
            THEN html_content[r].first_name = <<>>
            ELSE IsLeadingToken(html_content[r].first_name, signup[r].name)

C9_Witness ==
    \E r \in Reqs :
        /\ IsSignup(r) /\ Count(events[r], "render") > 0
        /\ signup[r].name = <<"a", " ", "a">>
        /\ html_content[r].first_name = <<"a">>

\* C10: an authorized signup request whose name is non-empty and only
\* whitespace never reaches the render or the provider send; it ends with a 500
\* response, and when its template was loaded it is the first-name derivation
\* that failed, after the load.
C10_WhitespaceNameInternalError ==
    \A r \in Reqs :
        (Entered(r) /\ OnlyWhitespace(signup[r].name)) =>
            /\ pc[r] \in {"load", "first_name", "done"}
            /\ Sends(r) = 0
            /\ Count(events[r], "render") = 0
            /\ pc[r] = "done" =>
                   /\ result[r].status = 500
                   /\ "loaded" \in {events[r][i] : i \in 1 .. Len(events[r])} =>
                          /\ caught[r].type = "IndexError"
                          /\ events[r] = <<"load", "loaded">>

C10_Witness ==
    \E r \in Reqs :
        /\ Entered(r) /\ pc[r] = "done"
        /\ signup[r].name = <<" ", " ">>
        /\ caught[r].type = "IndexError"
        /\ events[r] = <<"load", "loaded">>
        /\ result[r].status = 500

====
